---- MODULE Spec2Model ----
(***************************************************************************)
(* sql-query-identifier: the top-level splitter `parse` and the statement  *)
(* classifier `stateMachineStatementParser` of src/src/parser.js, with the *)
(* types of src/unnamed/part_000.                                          *)
(*                                                                         *)
(* One parse call is one behaviour.  Init is the state of parse after      *)
(* lines 34-50; ParseLoop is one iteration of the while loop of lines      *)
(* 52-77 (scan one token, then the whole body of the iteration); ParseEnd  *)
(* is lines 79-88.  The scanner (./tokenizer) is pull-based and the        *)
(* splitter never looks ahead, so the input is revealed one token at a     *)
(* time: the token sequence scanned so far is the input prefix, and        *)
(* ParseEnd is the input ending there (position = input.length - 1).       *)
(* The scanner takes a whole whitespace run and a whole word as one token, *)
(* so whitespace never follows whitespace and a word never follows a word. *)
(*                                                                         *)
(* Lines 401-434 of parser.js hold an unresolved merge conflict.  The      *)
(* model follows its last "Stashed changes" side, lines 418-434: it is the *)
(* only side that is a complete sequence of statements, the only one that  *)
(* keeps the whitespace handling the steps rely on, and the one the        *)
(* openBlocks counter outside the conflict (lines 343-345, 443-446)        *)
(* belongs to.                                                             *)
(***************************************************************************)
EXTENDS Integers, Sequences, FiniteSets, TLC

VARIABLES
    isStrict,         \* parse's parameter isStrict
    dialect,          \* parse's parameter dialect
    position,         \* prevState.position: offset of the last scanned character
    statementParser,  \* the active classifier, or NoParser
    token,            \* the token scanned by the current loop iteration
    tokens,           \* topLevelStatement.tokens
    body,             \* topLevelStatement.body
    status            \* "running", "returned" (line 88) or "thrown"

vars == <<isStrict, dialect, position, statementParser, token, tokens, body, status>>

-----------------------------------------------------------------------------
(* Bounds of the model *)

\* Longest input, in tokens, of the general specification.
MaxLen == 4

\* Longest input, in tokens, of the statement-type specification.
MaxTypesLen == 4

\* Tokens of the trigger header between the trigger's name and BEGIN, each
\* with the whitespace before it.
MaxHeader == 1

\* Longest input, in tokens, of the definer specification.
MaxDefinerLen == 9

\* Words of the function body of the block specification, each with the
\* separator before it.
MaxBlocks == 4

\* Words between CREATE and the last word of the replace specification.
MaxClause == 2

-----------------------------------------------------------------------------
(* JavaScript values *)

undefined == "undefined"

\* Offset of a statement or token field that has not been assigned.
NoOffset == -1

\* statement.definer and statement.openBlocks hold undefined, a number, NaN or false.
Undefined == [t |-> "undefined", n |-> 0]
NaN == [t |-> "NaN", n |-> 0]
False == [t |-> "boolean", n |-> 0]
Num(k) == [t |-> "number", n |-> k]

\* x++ and x-- on a field: undefined and NaN give NaN.
Increment(x) == IF x.t = "number" THEN Num(x.n + 1) ELSE NaN
Decrement(x) == IF x.t = "number" THEN Num(x.n - 1) ELSE NaN

\* String.prototype.toUpperCase on the token values of the model.
toUpperCase(v) ==
    CASE v = "select" -> "SELECT"
      [] v = "create" -> "CREATE"
      [] v = "trigger" -> "TRIGGER"
      [] v = "table" -> "TABLE"
      [] v = "function" -> "FUNCTION"
      [] v = "end" -> "END"
      [] v = "begin" -> "BEGIN"
      [] v = "definer" -> "DEFINER"
      [] v = "replace" -> "REPLACE"
      [] v = "or" -> "OR"
      [] v = "if" -> "IF"
      [] v = "loop" -> "LOOP"
      [] v = "x" -> "X"
      [] v = "a" -> "A"
      [] v = "f" -> "F"
      [] v = "'h'" -> "'H'"
      [] v = "t" -> "T"
      [] v = "u" -> "U"
      [] v = "h" -> "H"
      [] v = "'s'" -> "'S'"
      [] v = "--c" -> "--C"
      [] OTHER -> v

-----------------------------------------------------------------------------
(* Types of src/unnamed/part_000 *)

DIALECTS == {"mssql", "sqlite", "mysql", "psql", "generic"}

StatementType ==
    {"INSERT", "UPDATE", "DELETE", "SELECT", "TRUNCATE", "CREATE_TABLE",
     "CREATE_DATABASE", "CREATE_TRIGGER", "CREATE_FUNCTION", "DROP_TABLE",
     "DROP_DATABASE", "DROP_TRIGGER", "DROP_FUNCTION", "UNKNOWN"}

\* The input alphabet: a token before the scanner has placed it.
Tok(type, value) == [type |-> type, value |-> value]

\* ./tokenizer scanToken: the next token starts right after the cursor and
\* covers the characters of its value; offsets are inclusive, as parse's own
\* end = input.length - 1 and initState's start = position + 1 are.
scanToken(pos, tv) ==
    [type |-> tv.type, value |-> tv.value,
     start |-> pos + 1, end |-> pos + Len(tv.value)]

NoToken == [type |-> undefined, value |-> undefined, start |-> NoOffset, end |-> NoOffset]

\* Values of unknown tokens that are single symbols, not words.
Symbols == {"=", "@", "("}

IsWord(tv) == tv.type = "keyword" \/ (tv.type = "unknown" /\ tv.value \notin Symbols)

\* ./tokenizer scanToken takes a whole run of whitespace and a whole word as
\* one token: whitespace never follows whitespace and a word never follows
\* a word. prev is the token scanned before, NoToken at the start.
follows(prev, tv) ==
    /\ ~(prev.type = "whitespace" /\ tv.type = "whitespace")
    /\ ~(prev # NoToken /\ IsWord(prev) /\ IsWord(tv))

-----------------------------------------------------------------------------
(* Tables of parser.js *)

\* Mutant: the table without its TRUNCATE entry.
EXECUTION_TYPES_NoTruncate(type) ==
    CASE type = "SELECT" -> "LISTING"
      [] type \in {"INSERT", "DELETE", "UPDATE", "CREATE_DATABASE", "CREATE_TABLE",
                   "CREATE_TRIGGER", "CREATE_FUNCTION", "DROP_DATABASE",
                   "DROP_TABLE"} -> "MODIFICATION"
      [] type = "UNKNOWN" -> "UNKNOWN"
      [] OTHER -> undefined

EXECUTION_TYPES(type) ==
    CASE type = "SELECT" -> "LISTING"
      [] type \in {"INSERT", "DELETE", "UPDATE", "CREATE_DATABASE", "CREATE_TABLE",
                   "CREATE_TRIGGER", "CREATE_FUNCTION", "DROP_DATABASE",
                   "DROP_TABLE", "TRUNCATE"} -> "MODIFICATION"
      [] type = "UNKNOWN" -> "UNKNOWN"
      [] OTHER -> undefined

dialectsWithOpenBlocks == {"psql"}
blockOpeners == {"BEGIN", "IF", "LOOP"}
\* Mutant: the generic dialect waits for END too.
dialectsWithEndsAndGeneric == {"sqlite", "mssql", "psql", "generic"}
dialectsWithEnds == {"sqlite", "mssql", "psql"}
statementsWithEnds == {"CREATE_TRIGGER", "CREATE_FUNCTION"}
ignoreOutsideBlankTokens == {"whitespace", "comment-inline", "comment-block"}

-----------------------------------------------------------------------------
(* The classifiers *)

\* const statement = {} of every create*StatementParser, with openBlocks as
\* stateMachineStatementParser sets it for its dialect.  canEnd is undefined
\* or true in the code and only its truth is read: FALSE stands for undefined.
NewStatement(d) ==
    [type |-> undefined, start |-> NoOffset, end |-> NoOffset,
     executionType |-> undefined, endStatement |-> undefined, canEnd |-> FALSE,
     definer |-> Undefined,
     openBlocks |-> IF d \in dialectsWithOpenBlocks THEN Num(0) ELSE Undefined]

\* The closure stateMachineStatementParser returns: its statement, its steps
\* (by kind), currentStepIndex, prevToken and its options.
stateMachineStatementParser(kind, strict, d) ==
    [kind |-> kind, statement |-> NewStatement(d), currentStepIndex |-> 0,
     prevToken |-> NoToken, isStrict |-> strict, dialect |-> d]

NoParser == stateMachineStatementParser("null", FALSE, "generic")

Accept(values) == {Tok("keyword", v) : v \in values}

Step(hasValidation, requireBefore, acceptValues) ==
    [hasValidation |-> hasValidation, requireBefore |-> requireBefore,
     acceptTokens |-> Accept(acceptValues)]

\* The steps arrays of the create*StatementParser functions.
steps(kind) ==
    CASE kind = "SELECT" -> <<Step(TRUE, {}, {"SELECT"})>>
      [] kind = "INSERT" -> <<Step(TRUE, {}, {"INSERT"})>>
      [] kind = "UPDATE" -> <<Step(TRUE, {}, {"UPDATE"})>>
      [] kind = "DELETE" -> <<Step(TRUE, {}, {"DELETE"})>>
      [] kind = "TRUNCATE" -> <<Step(TRUE, {}, {"TRUNCATE"})>>
      [] kind = "CREATE" ->
            <<Step(TRUE, {}, {"CREATE"}),
              Step(TRUE, {"whitespace"}, {"TABLE", "DATABASE", "TRIGGER", "FUNCTION"})>>
      [] kind = "DROP" ->
            <<Step(TRUE, {}, {"DROP"}),
              Step(TRUE, {"whitespace"}, {"TABLE", "DATABASE"})>>
      [] kind = "UNKNOWN" -> <<Step(FALSE, {}, {})>>
      [] OTHER -> <<>>

\* The add function of step index idx (0-based) of a classifier of this kind.
stepAdd(kind, idx, statement, tk) ==
    CASE kind \in {"SELECT", "INSERT", "UPDATE", "DELETE", "TRUNCATE", "UNKNOWN"} ->
            [statement EXCEPT !.type = kind, !.start = tk.start]
      [] kind \in {"CREATE", "DROP"} /\ idx = 0 ->
            [statement EXCEPT !.start = tk.start]
      [] kind = "CREATE" /\ idx = 1 ->
            [statement EXCEPT !.type = "CREATE_" \o toUpperCase(tk.value)]
      [] kind = "DROP" /\ idx = 1 ->
            [statement EXCEPT !.type = "DROP_" \o toUpperCase(tk.value)]
      [] OTHER -> statement

\* Mutant: every token is valid for every step.
isValidTokenAny(step, tk) == TRUE

\* Mutant: the token's value is compared as written, without toUpperCase.
isValidTokenCaseSensitive(step, tk) ==
    IF ~step.hasValidation
    THEN TRUE
    ELSE \E accept \in step.acceptTokens :
            /\ tk.type = accept.type
            /\ tk.value = accept.value

isValidToken(step, tk) ==
    IF ~step.hasValidation
    THEN TRUE
    ELSE \E accept \in step.acceptTokens :
            /\ tk.type = accept.type
            /\ toUpperCase(tk.value) = accept.value

\* Reads step.requireBefore, a field no step has (the steps keep it under
\* validation): !step.requireBefore is always true.
hasRequiredBefore(step, prevToken) == TRUE

\* What addToken gives back: the classifier after the call, and the error
\* it threw ("none" when it returned).
Returned(p, statement, prevToken, idx) ==
    [parser |-> [p EXCEPT !.statement = statement, !.prevToken = prevToken,
                          !.currentStepIndex = idx],
     thrown |-> "none"]

Thrown(p, error) == [parser |-> p, thrown |-> error]

\* Mutant: no semicolon is ever ignored.
semicolonNeverIgnored(d, statement) == FALSE

\* Lines 387-390: the semicolon does not end the statement.
semicolonIgnored(d, statement) ==
    \/ d \in dialectsWithEnds /\ statement.type \in statementsWithEnds /\ ~statement.canEnd
    \/ d = "psql" /\ statement.type = "CREATE_FUNCTION" /\ ~statement.canEnd

\* Lines 483-511: the token is matched against the current step.
addTokenStep(p, tk) ==
    LET idx == p.currentStepIndex
        all == steps(p.kind)
    IN  IF idx >= Len(all)
        THEN Thrown(p, "TypeError")
        ELSE LET currentStep == all[idx + 1]
                 added == stepAdd(p.kind, idx, p.statement, tk)
                 typed == IF EXECUTION_TYPES(added.type) # undefined
                          THEN EXECUTION_TYPES(added.type)
                          ELSE "UNKNOWN"
             IN  IF ~hasRequiredBefore(currentStep, p.prevToken)
                 THEN Thrown(p, "ExpectedBefore")
                 ELSE IF ~isValidToken(currentStep, tk) /\ p.isStrict
                 THEN Thrown(p, "ExpectedInstead")
                 ELSE Returned(p, [added EXCEPT !.executionType = typed], tk, idx + 1)

\* Mutant: an identified statement does not wait for its end; the token
\* goes on to the steps.
addTokenDefinerNoWait(p, tk) ==
    LET st == p.statement
        definer == st.definer
        cleared == IF definer.t = "number" /\ definer.n > 0
                   THEN [p EXCEPT !.statement.definer = False]
                   ELSE p
    IN  IF p.dialect = "mysql" /\ toUpperCase(tk.value) = "DEFINER"
        THEN Returned(p, [st EXCEPT !.definer = Num(0)], tk, p.currentStepIndex)
        ELSE IF definer = Num(0) /\ tk.value = "="
        THEN Returned(p, [st EXCEPT !.definer = Increment(@)], tk, p.currentStepIndex)
        ELSE IF definer = Num(1) /\ p.prevToken.type = "whitespace"
        THEN Returned(p, [st EXCEPT !.definer = Increment(@)], tk, p.currentStepIndex)
        ELSE IF definer.t = "number" /\ definer.n > 1 /\ p.prevToken.type # "whitespace"
        THEN Returned(p, st, tk, p.currentStepIndex)
        ELSE addTokenStep(cleared, tk)

\* Lines 450-481: the definer clause, then the wait for the end of an
\* identified statement.
addTokenDefiner(p, tk) ==
    LET st == p.statement
        definer == st.definer
        cleared == IF definer.t = "number" /\ definer.n > 0
                   THEN [p EXCEPT !.statement.definer = False]
                   ELSE p
    IN  IF p.dialect = "mysql" /\ toUpperCase(tk.value) = "DEFINER"
        THEN Returned(p, [st EXCEPT !.definer = Num(0)], tk, p.currentStepIndex)
        ELSE IF definer = Num(0) /\ tk.value = "="
        THEN Returned(p, [st EXCEPT !.definer = Increment(@)], tk, p.currentStepIndex)
        ELSE IF definer = Num(1) /\ p.prevToken.type = "whitespace"
        THEN Returned(p, [st EXCEPT !.definer = Increment(@)], tk, p.currentStepIndex)
        ELSE IF definer.t = "number" /\ definer.n > 1 /\ p.prevToken.type # "whitespace"
        THEN Returned(p, st, tk, p.currentStepIndex)
        ELSE IF cleared.statement.type # undefined
        THEN Returned(cleared, cleared.statement, cleared.prevToken, cleared.currentStepIndex)
        ELSE addTokenStep(cleared, tk)

\* Mutant: OR and REPLACE are not skipped.
addTokenSkipNoReplace(p, tk) ==
    LET st == p.statement
    IN  IF tk.type = "whitespace"
        THEN Returned(p, st, tk, p.currentStepIndex)
        ELSE IF p.dialect \in dialectsWithOpenBlocks /\ toUpperCase(tk.value) \in blockOpeners
        THEN Returned(p, [st EXCEPT !.openBlocks = Increment(@)], p.prevToken,
                      p.currentStepIndex)
        ELSE addTokenDefiner(p, tk)

\* Lines 430-446: whitespace, OR REPLACE, block openers.
addTokenSkip(p, tk) ==
    LET st == p.statement
    IN  IF tk.type = "whitespace"
        THEN Returned(p, st, tk, p.currentStepIndex)
        ELSE IF p.dialect = "psql" /\ toUpperCase(tk.value) \in {"OR", "REPLACE"}
        THEN Returned(p, st, tk, p.currentStepIndex)
        ELSE IF p.dialect \in dialectsWithOpenBlocks /\ toUpperCase(tk.value) \in blockOpeners
        THEN Returned(p, [st EXCEPT !.openBlocks = Increment(@)], p.prevToken,
                      p.currentStepIndex)
        ELSE addTokenDefiner(p, tk)

\* Mutant: any END lets the statement end, whatever the depth.
addTokenEndAnyDepth(p, tk) ==
    LET st == p.statement
        closed == [st EXCEPT !.openBlocks = Decrement(@)]
    IN  IF /\ p.dialect \in dialectsWithEnds
           /\ st.type \in statementsWithEnds
           /\ toUpperCase(tk.value) = "END"
        THEN Returned(p, [closed EXCEPT !.canEnd = TRUE], p.prevToken,
                      p.currentStepIndex)
        ELSE addTokenSkip(p, tk)

\* Lines 418-428: the closing END.
addTokenEnd(p, tk) ==
    LET st == p.statement
        closed == [st EXCEPT !.openBlocks = Decrement(@)]
    IN  IF /\ p.dialect \in dialectsWithEnds
           /\ st.type \in statementsWithEnds
           /\ toUpperCase(tk.value) = "END"
        THEN IF p.dialect \notin dialectsWithOpenBlocks \/ closed.openBlocks = Num(0)
             THEN Returned(p, [closed EXCEPT !.canEnd = TRUE], p.prevToken,
                           p.currentStepIndex)
             ELSE addTokenSkip([p EXCEPT !.statement = closed], tk)
        ELSE addTokenSkip(p, tk)

\* addToken, lines 378-512.
addToken(p, tk) ==
    IF p.statement.endStatement # undefined
    THEN Thrown(p, "AlreadyEnded")
    ELSE IF tk.type = "semicolon" /\ ~semicolonIgnored(p.dialect, p.statement)
    THEN Returned(p, [p.statement EXCEPT !.endStatement = ";"], p.prevToken,
                  p.currentStepIndex)
    ELSE addTokenEnd(p, tk)

\* The leading keywords createStatementParserByToken switches on.
StatementKeywords == {"SELECT", "CREATE", "DROP", "INSERT", "UPDATE", "DELETE", "TRUNCATE"}

\* Mutant: the unknown classifier is selected in strict mode too, for any token.
createStatementParserLenient(tk, strict, d) ==
    IF tk.type = "keyword" /\ toUpperCase(tk.value) \in StatementKeywords
    THEN IF toUpperCase(tk.value) = "CREATE"
         THEN stateMachineStatementParser("CREATE", strict, d)
         ELSE stateMachineStatementParser(toUpperCase(tk.value), strict, "generic")
    ELSE stateMachineStatementParser("UNKNOWN", FALSE, "generic")

\* Mutant: the unknown classifier is never selected.
createStatementParserStrictOnly(tk, strict, d) ==
    IF tk.type = "keyword" /\ toUpperCase(tk.value) \in StatementKeywords
    THEN IF toUpperCase(tk.value) = "CREATE"
         THEN stateMachineStatementParser("CREATE", strict, d)
         ELSE stateMachineStatementParser(toUpperCase(tk.value), strict, "generic")
    ELSE NoParser

\* createStatementParserByToken: NoParser stands for the throw of line 129.
\* Only createCreateStatementParser hands the dialect on; the unknown
\* classifier is handed options.isStrict where it destructures { isStrict },
\* so its isStrict is undefined (falsy).
createStatementParserByToken(tk, strict, d) ==
    IF tk.type = "keyword" /\ toUpperCase(tk.value) \in StatementKeywords
    THEN IF toUpperCase(tk.value) = "CREATE"
         THEN stateMachineStatementParser("CREATE", strict, d)
         ELSE stateMachineStatementParser(toUpperCase(tk.value), strict, "generic")
    ELSE IF ~strict /\ tk.type = "unknown"
    THEN stateMachineStatementParser("UNKNOWN", FALSE, "generic")
    ELSE NoParser

-----------------------------------------------------------------------------
(* parse *)

Init ==
    /\ isStrict \in BOOLEAN
    /\ dialect \in DIALECTS
    /\ position = -1
    /\ statementParser = NoParser
    /\ token = NoToken
    /\ tokens = <<>>
    /\ body = <<>>
    /\ status = "running"

\* Mutant: the statement's end is one past the token's end.
sealedPastEnd(statement, tk) == [statement EXCEPT !.end = tk.end + 1]

\* Lines 71-76: seal the statement the token ended.
sealed(statement, tk) == [statement EXCEPT !.end = tk.end]

\* Mutant: blank tokens are not recorded.
pushTokenNoBlank(list, tk) ==
    IF tk.type = "whitespace" THEN list ELSE Append(list, tk)

\* Lines 59 and 68: topLevelStatement.tokens.push(token).
pushToken(list, tk) == Append(list, tk)

\* Mutant: the classifier of a sealed statement stays active.
keptAlways(p) == p

\* Lines 71-76: the classifier whose statement got its ending key is
\* discarded (statementParser = null); any other stays active.
kept(p) == IF p.statement.endStatement # undefined THEN NoParser ELSE p

\* One iteration of the while loop of lines 52-77, on a next token drawn
\* from `next` that the scanner can produce after the last one.
ParseLoop(next) ==
    /\ status = "running"
    /\ \E tv \in {t \in next : follows(token, t)} :
        LET tk == scanToken(position, tv)
            p == IF statementParser = NoParser
                 THEN createStatementParserByToken(tk, isStrict, dialect)
                 ELSE statementParser
            fed == addToken(p, tk)
        IN  /\ token' = tk
            /\ IF statementParser = NoParser /\ tk.type \in ignoreOutsideBlankTokens
               THEN /\ tokens' = pushToken(tokens, tk)
                    /\ position' = tk.end
                    /\ UNCHANGED <<statementParser, body, status>>
               ELSE IF p = NoParser
               THEN /\ status' = "thrown"
                    /\ UNCHANGED <<statementParser, body, tokens, position>>
               ELSE IF fed.thrown # "none"
               THEN /\ status' = "thrown"
                    /\ statementParser' = p
                    /\ UNCHANGED <<body, tokens, position>>
               ELSE /\ tokens' = pushToken(tokens, tk)
                    /\ position' = tk.end
                    /\ status' = "running"
                    /\ body' = IF fed.parser.statement.endStatement # undefined
                               THEN Append(body, sealed(fed.parser.statement, tk))
                               ELSE body
                    /\ statementParser' = kept(fed.parser)
    /\ UNCHANGED <<isStrict, dialect>>

\* Lines 79-88: the input ends at the cursor; the last statement without
\* ending key is sealed at topLevelStatement.end, and parse returns.
ParseEnd ==
    /\ status = "running"
    /\ status' = "returned"
    /\ body' = IF statementParser # NoParser
                  /\ statementParser.statement.endStatement = undefined
               THEN Append(body, [statementParser.statement EXCEPT !.end = position])
               ELSE body
    /\ UNCHANGED <<isStrict, dialect, position, statementParser, token, tokens>>

-----------------------------------------------------------------------------
(* The general specification: every input of at most MaxLen tokens over Vocab *)

Vocab ==
    {Tok("whitespace", " "), Tok("comment-inline", "--c"), Tok("semicolon", ";"),
     Tok("string", "'s'"), Tok("unknown", "x"),
     Tok("keyword", "select"), Tok("keyword", "CREATE"), Tok("keyword", "TRIGGER"),
     Tok("keyword", "END")}

Next ==
    \/ ParseLoop(IF Len(tokens) < MaxLen THEN Vocab ELSE {})
    \/ ParseEnd

Spec == Init /\ [][Next]_vars

-----------------------------------------------------------------------------
(* Inputs of the claims *)

\* The tokens parse has scanned: the ones it pushed and, when it threw, the
\* one it threw on.
Scanned == IF status = "thrown" THEN Append(tokens, token) ELSE tokens

IsKeyword(tk, value) == tk.type = "keyword" /\ toUpperCase(tk.value) = value

Semicolons(s) == {i \in 1..Len(s) : s[i].type = "semicolon"}

Least(S) == CHOOSE i \in S : \A j \in S : i <= j

\* The statement-type specification: a leading token, a separator, an object
\* token, then filler tokens.
Leading ==
    {Tok("keyword", "select"), Tok("keyword", "INSERT"), Tok("keyword", "UPDATE"),
     Tok("keyword", "DELETE"), Tok("keyword", "TRUNCATE"), Tok("keyword", "CREATE"),
     Tok("keyword", "DROP"), Tok("unknown", "x")}

Objects ==
    {Tok("keyword", "TABLE"), Tok("keyword", "table"), Tok("keyword", "DATABASE"),
     Tok("keyword", "TRIGGER"), Tok("keyword", "FUNCTION"), Tok("keyword", "END"),
     Tok("unknown", "x"), Tok("semicolon", ";")}

Filler ==
    {Tok("whitespace", " "), Tok("semicolon", ";"), Tok("unknown", "x"),
     Tok("keyword", "END")}

TypesSlot(i) ==
    IF i > MaxTypesLen THEN {}
    ELSE IF i = 1 THEN Leading
    ELSE IF i = 3 THEN Objects
    ELSE Filler

NextTypes ==
    \/ ParseLoop(TypesSlot(Len(tokens) + 1))
    \/ ParseEnd

SpecTypes == Init /\ [][NextTypes]_vars

\* The trigger specification: CREATE TRIGGER t <header> BEGIN UPDATE a; END;
\* and its variants (another object keyword, header tokens, a missing END).
Header ==
    {Tok("keyword", "ON"), Tok("keyword", "IF"), Tok("string", "'s'"),
     Tok("semicolon", ";")}

TriggerSlot(i) ==
    IF i = 1 THEN {Tok("keyword", "CREATE"), Tok("keyword", "create")}
    ELSE IF i = 2 THEN {Tok("whitespace", " ")}
    ELSE IF i = 3 THEN {Tok("keyword", "TRIGGER"), Tok("keyword", "trigger"),
                        Tok("keyword", "FUNCTION"), Tok("keyword", "TABLE")}
    ELSE IF i = 4 THEN {Tok("whitespace", " ")}
    ELSE IF i = 5 THEN {Tok("unknown", "t")}
    ELSE IF i <= 5 + 2 * MaxHeader
    THEN IF (i - 5) % 2 = 1 THEN {Tok("whitespace", " ")} ELSE Header
    ELSE IF i = 6 + 2 * MaxHeader THEN {Tok("whitespace", " ")}
    ELSE IF i = 7 + 2 * MaxHeader THEN {Tok("keyword", "BEGIN"), Tok("keyword", "begin")}
    ELSE IF i = 8 + 2 * MaxHeader THEN {Tok("whitespace", " ")}
    ELSE IF i = 9 + 2 * MaxHeader THEN {Tok("keyword", "UPDATE")}
    ELSE IF i = 10 + 2 * MaxHeader THEN {Tok("whitespace", " ")}
    ELSE IF i = 11 + 2 * MaxHeader THEN {Tok("unknown", "a")}
    ELSE IF i = 12 + 2 * MaxHeader THEN {Tok("semicolon", ";")}
    ELSE IF i = 13 + 2 * MaxHeader THEN {Tok("whitespace", " ")}
    ELSE IF i = 14 + 2 * MaxHeader THEN {Tok("keyword", "END"), Tok("keyword", "end"),
                                         Tok("unknown", "x")}
    ELSE IF i = 15 + 2 * MaxHeader THEN {Tok("semicolon", ";")}
    ELSE {}

NextTrigger ==
    \/ ParseLoop(TriggerSlot(Len(tokens) + 1))
    \/ ParseEnd

SpecTrigger == Init /\ [][NextTrigger]_vars

\* A prefix of an input of the shape CREATE TRIGGER ... BEGIN <statement>; END;
\* CREATE, whitespace and TRIGGER lead, BEGIN comes before the embedded
\* semicolon, no END comes before it, and after it come whitespace, END and
\* the final semicolon, and nothing else.
TriggerPrefix(s) ==
    /\ Len(s) >= 1 => IsKeyword(s[1], "CREATE")
    /\ Len(s) >= 2 => s[2].type = "whitespace"
    /\ Len(s) >= 3 => IsKeyword(s[3], "TRIGGER")
    /\ IF Semicolons(s) = {}
       THEN \A i \in 1..Len(s) : toUpperCase(s[i].value) # "END"
       ELSE LET k == Least(Semicolons(s))
            IN  /\ \E b \in 4..(k - 1) : IsKeyword(s[b], "BEGIN")
                /\ \A i \in 1..(k - 1) : toUpperCase(s[i].value) # "END"
                /\ Len(s) <= k + 3
                /\ Len(s) >= k + 1 => s[k + 1].type = "whitespace"
                /\ Len(s) >= k + 2 => IsKeyword(s[k + 2], "END")
                /\ Len(s) >= k + 3 => s[k + 3].type = "semicolon"

\* The offset in s of the embedded semicolon of a trigger input.
Embedded(s) == Least(Semicolons(s))

TriggerShape(s) ==
    /\ TriggerPrefix(s)
    /\ Semicolons(s) # {}
    /\ Len(s) = Embedded(s) + 3

\* The definer specification: inputs of the shape
\*   CREATE DEFINER [ ] = [ ] <principal> FUNCTION <tokens> ;
\* read by the automaton DefinerStep, whose state "reject" is a token
\* sequence of another shape and whose state "done" is a whole input.
DefinerStep(q, tv) ==
    CASE q = "start" /\ IsKeyword(tv, "CREATE") -> "create"
      [] q = "create" /\ tv.type = "whitespace" -> "space"
      [] q = "space" /\ IsKeyword(tv, "DEFINER") -> "definer"
      [] q = "definer" /\ tv.type = "whitespace" -> "definer "
      [] q \in {"definer", "definer "} /\ tv.value = "=" -> "equals"
      [] q = "equals" /\ tv.type = "whitespace" -> "equals "
      [] q \in {"equals", "equals ", "principal"} /\ tv.type \in {"unknown", "string"}
            /\ tv.value # "=" -> "principal"
      [] q = "principal" /\ tv.type = "whitespace" -> "principal "
      [] q = "principal " /\ IsKeyword(tv, "FUNCTION") -> "function"
      [] q = "function" /\ tv.type # "semicolon" -> "function"
      [] q = "function" /\ tv.type = "semicolon" -> "done"
      [] OTHER -> "reject"

RECURSIVE DefinerState(_)
DefinerState(s) ==
    IF s = <<>> THEN "start"
    ELSE DefinerStep(DefinerState(SubSeq(s, 1, Len(s) - 1)), s[Len(s)])

DefinerPrefix(s) == DefinerState(s) # "reject"
DefinerShape(s) == DefinerState(s) = "done"

DefinerVocab ==
    {Tok("keyword", "CREATE"), Tok("whitespace", " "), Tok("keyword", "DEFINER"),
     Tok("keyword", "definer"), Tok("unknown", "="), Tok("unknown", "u"),
     Tok("unknown", "@"), Tok("string", "'h'"), Tok("keyword", "FUNCTION"),
     Tok("unknown", "f"), Tok("semicolon", ";")}

NextDefiner ==
    \/ ParseLoop(IF Len(tokens) < MaxDefinerLen
                 THEN {tv \in DefinerVocab : DefinerPrefix(Append(tokens, tv))}
                 ELSE {})
    \/ ParseEnd

SpecDefiner == Init /\ [][NextDefiner]_vars

-----------------------------------------------------------------------------
(* The claims *)

\* The execution-type table of the specification, section 4.3.
ExecutionTypeOf(type) ==
    IF type = "SELECT" THEN "LISTING"
    ELSE IF type \in {"INSERT", "UPDATE", "DELETE", "TRUNCATE", "CREATE_DATABASE",
                      "CREATE_TABLE", "CREATE_TRIGGER", "CREATE_FUNCTION",
                      "DROP_DATABASE", "DROP_TABLE"}
    THEN "MODIFICATION"
    ELSE "UNKNOWN"

SupportedLeading == {"SELECT", "INSERT", "UPDATE", "DELETE", "CREATE", "DROP", "TRUNCATE"}

DataKeywords == {"SELECT", "INSERT", "UPDATE", "DELETE", "TRUNCATE"}

IsLeading(tk) == tk.type = "keyword" /\ toUpperCase(tk.value) \in SupportedLeading

\* A step of the while loop (not the return of parse, not stuttering).
Iterates == status = "running" /\ status' # "returned"

\* C1: under sqlite, mssql or psql, a CREATE_TRIGGER or CREATE_FUNCTION
\* statement that a semicolon ended was fed an END (any letter case) before
\* that semicolon; parse raises on no prefix of an input of the shape
\* CREATE TRIGGER ... BEGIN <statement>; END; and returns for the whole input
\* exactly one statement, of type CREATE_TRIGGER, from the first token to the
\* offset of the final semicolon.
C1_TriggerEndsAtFinalSemicolon ==
    dialect \in {"sqlite", "mssql", "psql"} =>
        /\ \A i \in 1..Len(body) :
              /\ body[i].type \in {"CREATE_TRIGGER", "CREATE_FUNCTION"}
              /\ body[i].endStatement = ";"
              => \E j \in 1..Len(tokens) :
                    /\ toUpperCase(tokens[j].value) = "END"
                    /\ body[i].start < tokens[j].start
                    /\ tokens[j].end < body[i].end
        /\ ~(status = "thrown" /\ TriggerPrefix(Scanned))
        /\ status = "returned" /\ TriggerShape(tokens) =>
              /\ Len(body) = 1
              /\ body[1].type = "CREATE_TRIGGER"
              /\ body[1].start = tokens[1].start
              /\ body[1].end = tokens[Len(tokens)].start

C1_Witness ==
    /\ status = "returned"
    /\ dialect = "sqlite"
    /\ TriggerShape(tokens)
    /\ tokens[Len(tokens) - 1].value = "end"
    /\ Len(body) = 1
    /\ body[1].endStatement = ";"
    /\ body[1].canEnd

\* C2: under dialect generic every semicolon token parse has pushed ended a
\* statement: a statement of body has endStatement ";" and its end at that
\* semicolon's end offset, whatever its type.
C2_GenericSemicolonEnds ==
    dialect = "generic" =>
        \A j \in 1..Len(tokens) :
            tokens[j].type = "semicolon" =>
                \E i \in 1..Len(body) :
                    /\ body[i].endStatement = ";"
                    /\ body[i].end = tokens[j].end

C2_Witness ==
    /\ dialect = "generic"
    /\ \E i \in 1..Len(body) :
          /\ body[i].type = "CREATE_TRIGGER"
          /\ body[i].endStatement = ";"
          /\ body[i].end = tokens[Len(tokens)].end

\* C3 as stated: under dialect generic in strict mode parse raises on no
\* prefix of the trigger input and returns a body of exactly two statements,
\* the first ending at the embedded semicolon.
C3_GenericYieldsTwoStatements ==
    isStrict /\ dialect = "generic" =>
        /\ ~(status = "thrown" /\ TriggerPrefix(Scanned))
        /\ status = "returned" /\ TriggerShape(tokens) =>
              /\ Len(body) = 2
              /\ body[1].end = tokens[Embedded(tokens)].end

\* C3 as amended: under dialect generic in strict mode the trigger input
\* gets one statement, of type CREATE_TRIGGER, sealed at the embedded
\* semicolon, and parse raises on the END token that follows: it returns
\* no result for the whole input.
C3_GenericRaisesAtEnd ==
    isStrict /\ dialect = "generic" /\ TriggerPrefix(Scanned) /\ Semicolons(Scanned) # {} =>
        /\ Len(body) = 1
        /\ body[1].type = "CREATE_TRIGGER"
        /\ body[1].endStatement = ";"
        /\ body[1].end = Scanned[Embedded(Scanned)].end
        /\ Len(Scanned) >= Embedded(Scanned) + 2 =>
              /\ status = "thrown"
              /\ statementParser = NoParser
              /\ IsKeyword(token, "END")
        /\ ~(status = "returned" /\ TriggerShape(tokens))

C3_Witness ==
    /\ isStrict
    /\ dialect = "generic"
    /\ status = "thrown"
    /\ TriggerPrefix(Scanned)
    /\ IsKeyword(token, "END")
    /\ Len(body) = 1
    /\ body[1].end = tokens[Embedded(tokens)].end

\* C4: under dialect generic, an input that is one of SELECT, INSERT,
\* UPDATE, DELETE, TRUNCATE (any letter case), tokens other than a semicolon
\* and one semicolon does not make parse raise, and parse returns one
\* statement: its type the keyword, its executionType the table's, its start
\* the keyword's, endStatement ";" and its end the semicolon's offset.
C4_LeadingKeywordStatement ==
    dialect = "generic" /\ Len(Scanned) >= 1 /\ Scanned[1].type = "keyword"
        /\ toUpperCase(Scanned[1].value) \in DataKeywords =>
        /\ status = "thrown" => Semicolons(tokens) # {}
        /\ status = "returned" /\ Semicolons(tokens) = {Len(tokens)} =>
              body = <<[NewStatement("generic") EXCEPT
                          !.type = toUpperCase(tokens[1].value),
                          !.executionType = ExecutionTypeOf(toUpperCase(tokens[1].value)),
                          !.start = tokens[1].start,
                          !.endStatement = ";",
                          !.end = tokens[Len(tokens)].start]>>

C4_Witness ==
    /\ dialect = "generic"
    /\ isStrict
    /\ status = "returned"
    /\ Len(tokens) = 4
    /\ tokens[1].value = "select"
    /\ Semicolons(tokens) = {4}
    /\ Len(body) = 1
    /\ body[1].executionType = "LISTING"

\* C5: in strict mode an iteration that scans, with no classifier active, a
\* token that is neither whitespace nor a comment nor one of the seven
\* leading keywords ends with parse raising, under every dialect and at
\* every place of the input.
C5_StrictRejectsStart ==
    [][(/\ Iterates
        /\ isStrict
        /\ statementParser = NoParser
        /\ token'.type \notin {"whitespace", "comment-inline", "comment-block"}
        /\ ~IsLeading(token'))
       => (status' = "thrown" /\ body' = body /\ tokens' = tokens)]_vars

C5_Witness ==
    /\ isStrict
    /\ status = "thrown"
    /\ statementParser = NoParser
    /\ token.type = "unknown"
    /\ Len(body) >= 1

\* C6: in non-strict mode an iteration that scans a token of type unknown
\* with no classifier active does not raise and starts a statement of type
\* UNKNOWN and executionType UNKNOWN at that token; the statement takes
\* every later token without raising and unchanged, until a semicolon (or
\* the end of input) seals it as one entry of body.
C6_NonStrictUnknownStatement ==
    [][(~isStrict /\ status = "running") =>
        /\ (status' # "returned" /\ statementParser = NoParser /\ token'.type = "unknown") =>
              /\ status' = "running"
              /\ body' = body
              /\ statementParser'.statement =
                    [NewStatement("generic") EXCEPT !.type = "UNKNOWN",
                                                    !.executionType = "UNKNOWN",
                                                    !.start = token'.start]
        /\ (status' # "returned" /\ statementParser # NoParser
                /\ statementParser.statement.type = "UNKNOWN") =>
              /\ status' = "running"
              /\ IF token'.type = "semicolon"
                 THEN /\ statementParser' = NoParser
                      /\ body' = Append(body, [statementParser.statement EXCEPT
                                                  !.endStatement = ";",
                                                  !.end = token'.end])
                 ELSE /\ body' = body
                      /\ statementParser'.statement = statementParser.statement
        /\ (status' = "returned" /\ statementParser # NoParser
                /\ statementParser.statement.type = "UNKNOWN") =>
              body' = Append(body, [statementParser.statement EXCEPT !.end = position])
      ]_vars

C6_Witness ==
    /\ ~isStrict
    /\ status = "returned"
    /\ Len(tokens) >= 3
    /\ tokens[1].type = "unknown"
    /\ body = <<[NewStatement("generic") EXCEPT !.type = "UNKNOWN",
                                                 !.executionType = "UNKNOWN",
                                                 !.start = 0,
                                                 !.endStatement = ";",
                                                 !.end = tokens[Len(tokens)].end]>>

\* C7: in non-strict mode parse never raises at the start of a statement
\* (with no classifier active), whatever the type of the token it scans.
C7_NonStrictStartNeverRaises ==
    ~isStrict /\ statementParser = NoParser => status # "thrown"

\* C8: under dialect mysql in strict mode parse raises on no prefix of an
\* input CREATE DEFINER [ ] = [ ] <principal> FUNCTION ... ; and returns for
\* the whole input one statement of type CREATE_FUNCTION and executionType
\* MODIFICATION, from the first token to the semicolon, as for the statement
\* without the clause.
C8_DefinerTransparent ==
    isStrict /\ dialect = "mysql" =>
        /\ ~(status = "thrown" /\ DefinerPrefix(Scanned))
        /\ status = "returned" /\ DefinerShape(tokens) =>
              /\ Len(body) = 1
              /\ body[1].type = "CREATE_FUNCTION"
              /\ body[1].executionType = "MODIFICATION"
              /\ body[1].start = tokens[1].start
              /\ body[1].endStatement = ";"
              /\ body[1].end = tokens[Len(tokens)].end

\* C9: the executionType of every statement of body is the table's for the
\* statement's type, in both modes and under every dialect.
C9_ExecutionTypeFollowsType ==
    \A i \in 1..Len(body) : body[i].executionType = ExecutionTypeOf(body[i].type)

C9_Witness ==
    /\ status = "returned"
    /\ ~isStrict
    /\ \E i \in 1..Len(body) :
          body[i].type = "DROP_TRIGGER" /\ body[i].executionType = "UNKNOWN"

\* C10: when parse returns, every statement of body has start <= end and
\* each statement ends strictly before the next one starts.
C10_BodySortedDisjoint ==
    status = "returned" =>
        \A i \in 1..Len(body) :
            /\ body[i].start <= body[i].end
            /\ i < Len(body) => body[i].end < body[i + 1].start

C10_Witness ==
    /\ status = "returned"
    /\ Len(body) >= 2
    /\ body[1].endStatement = ";"
    /\ body[2].endStatement = undefined

\* C11: when parse returns, the tokens list is the scanned tokens in scan
\* order, each once, ignored or fed: the first starts at offset 0, each
\* starts right after the end of the one before, and the last, which is the
\* last token scanned, ends at the end of the input.
C11_TokensContiguous ==
    status = "returned" =>
        /\ tokens = <<>> => position = -1 /\ token = NoToken
        /\ tokens # <<>> =>
              /\ tokens[1].start = 0
              /\ tokens[Len(tokens)] = token
              /\ tokens[Len(tokens)].end = position
        /\ \A i \in 1..(Len(tokens) - 1) : tokens[i + 1].start = tokens[i].end + 1

C11_Witness ==
    /\ status = "returned"
    /\ Len(tokens) = MaxLen
    /\ tokens[1].type = "whitespace"
    /\ tokens[2].type = "keyword"
    /\ tokens[3].type = "whitespace"
    /\ Len(body) = 1
    /\ body[1].start = tokens[2].start
    /\ body[1].end = position

\* C12: every statement of body, in strict and in non-strict mode, has a
\* type, and the type is a member of StatementType; a statement that a
\* semicolon or the end of the input ended before its object keyword is one
\* of them.
C12_BodyTypesInEnumeration ==
    \A i \in 1..Len(body) : body[i].type \in StatementType

-----------------------------------------------------------------------------
(* The dialect specification: parse called with any dialect value *)

\* A dialect value outside DIALECTS.
OtherDialect == "oracle"

InitDialects ==
    /\ isStrict \in BOOLEAN
    /\ dialect \in DIALECTS \cup {OtherDialect}
    /\ position = -1
    /\ statementParser = NoParser
    /\ token = NoToken
    /\ tokens = <<>>
    /\ body = <<>>
    /\ status = "running"

SpecDialects == InitDialects /\ [][Next]_vars

\* C13: parse called with a dialect outside DIALECTS is rejected with an
\* error: it scans no token into a result, builds no statement and never
\* returns.
C13_OtherDialectRejected ==
    dialect \notin DIALECTS =>
        /\ status # "returned"
        /\ tokens = <<>>
        /\ body = <<>>

\* The token tk fed to the classifier p, whose statement has no type yet, is
\* matched against p's current step (line 483): no earlier branch of
\* addToken returns on it.
ReachesStep(p, tk) ==
    /\ p.statement.endStatement = undefined
    /\ p.statement.type = undefined
    /\ tk.type \notin {"semicolon", "whitespace"}
    /\ ~(p.dialect = "psql" /\ toUpperCase(tk.value) \in {"OR", "REPLACE"} \cup blockOpeners)
    /\ ~(p.dialect = "mysql" /\ toUpperCase(tk.value) = "DEFINER")
    /\ p.statement.definer.t # "number"

\* C14: when a token is matched against the second step of a CREATE or DROP
\* classifier and the token fed before it is not whitespace, addToken
\* raises, in strict and in non-strict mode: parse throws on that token.
C14_RequireBeforeRaises ==
    [][(/\ Iterates
        /\ statementParser # NoParser
        /\ statementParser.kind \in {"CREATE", "DROP"}
        /\ statementParser.currentStepIndex = 1
        /\ statementParser.prevToken.type # "whitespace"
        /\ ReachesStep(statementParser, token'))
       => status' = "thrown"]_vars

-----------------------------------------------------------------------------
(* The block specification: CREATE FUNCTION f and a body of block words *)

InitBlocks ==
    /\ isStrict \in BOOLEAN
    /\ dialect \in {"psql", "sqlite", "mysql"}
    /\ position = -1
    /\ statementParser = NoParser
    /\ token = NoToken
    /\ tokens = <<>>
    /\ body = <<>>
    /\ status = "running"

Separators == {Tok("whitespace", " "), Tok("semicolon", ";")}

BlockWords(k) ==
    IF k % 2 = 1
    THEN {Tok("keyword", "BEGIN"), Tok("keyword", "LOOP"), Tok("keyword", "END"),
          Tok("keyword", "DEFINER")}
    ELSE {Tok("keyword", "begin"), Tok("keyword", "IF"), Tok("keyword", "END"),
          Tok("keyword", "end")}

\* CREATE FUNCTION f, then MaxBlocks words with a separator before each, then
\* a last separator.
BlocksSlot(i) ==
    IF i = 1 THEN {Tok("keyword", "CREATE")}
    ELSE IF i = 2 THEN {Tok("whitespace", " ")}
    ELSE IF i = 3 THEN {Tok("keyword", "FUNCTION")}
    ELSE IF i = 4 THEN {Tok("whitespace", " ")}
    ELSE IF i = 5 THEN {Tok("unknown", "f")}
    ELSE IF i > 6 + 2 * MaxBlocks THEN {}
    ELSE IF i % 2 = 0 THEN Separators
    ELSE BlockWords((i - 5) \div 2)

NextBlocks ==
    \/ ParseLoop(BlocksSlot(Len(tokens) + 1))
    \/ ParseEnd

SpecBlocks == InitBlocks /\ [][NextBlocks]_vars

IsOpener(tk) == tk.type # "semicolon" /\ toUpperCase(tk.value) \in {"BEGIN", "IF", "LOOP"}

IsEnd(tk) == tk.type # "semicolon" /\ toUpperCase(tk.value) = "END"

\* The depth after the first i tokens of s: openers minus ENDs.
BlockDepth(s, i) ==
    Cardinality({j \in 1..i : IsOpener(s[j])}) - Cardinality({j \in 1..i : IsEnd(s[j])})

\* A prefix of CREATE FUNCTION f <body> in which every token is before the
\* outermost block, or inside it: no END has closed the outermost block.
NestedPrefix(s) ==
    /\ Len(s) >= 1 => IsKeyword(s[1], "CREATE")
    /\ Len(s) >= 2 => s[2].type = "whitespace"
    /\ Len(s) >= 3 => IsKeyword(s[3], "FUNCTION")
    /\ \A i \in 1..Len(s) : IsEnd(s[i]) => BlockDepth(s, i) >= 1

\* CREATE FUNCTION f <nested blocks> END; : the last END is the first to
\* bring the depth to zero and the final semicolon follows it.
NestedShape(s) ==
    /\ Len(s) >= 5
    /\ s[Len(s)].type = "semicolon"
    /\ IsEnd(s[Len(s) - 1])
    /\ BlockDepth(s, Len(s) - 1) = 0
    /\ NestedPrefix(SubSeq(s, 1, Len(s) - 2))

\* The statement of the active classifier after this iteration, sealed or not.
StatementAfter ==
    IF Len(body') > Len(body) THEN body'[Len(body')] ELSE statementParser'.statement

C16_NoTokenAfterEnd ==
    /\ statementParser.statement.endStatement = undefined
    /\ \A i, j \in 1..Len(body) : i # j => body[i].start # body[j].start
    /\ \A i \in 1..Len(body) :
          Cardinality({j \in 1..Len(tokens) : tokens[j].start = body[i].start}) = 1

C16_Witness ==
    /\ status = "running"
    /\ statementParser = NoParser
    /\ Len(body) = 2
    /\ body[1].endStatement = ";"
    /\ body[2].endStatement = ";"
    /\ token.type = "semicolon"

\* The fields of a statement that addToken can change once the type is set.
EndFields(st) == <<st.endStatement, st.canEnd, st.openBlocks, st.definer, st.end>>

\* The statement st with those fields as in the statement to.
WithEndFields(st, to) ==
    [st EXCEPT !.endStatement = to.endStatement, !.canEnd = to.canEnd,
               !.openBlocks = to.openBlocks, !.definer = to.definer, !.end = to.end]

\* C17: once the type of the active classifier's statement is assigned, a
\* token fed to it makes parse raise in neither mode and leaves type,
\* executionType, start and the step index as they are; of the statement
\* only endStatement, canEnd, openBlocks and definer change (and end, which
\* parse sets when it seals the statement).
C17_TypedStatementInert ==
    [][(/\ Iterates
        /\ statementParser # NoParser
        /\ statementParser.statement.type # undefined)
       => LET st == statementParser.statement
          IN  /\ status' = "running"
              /\ StatementAfter.type = st.type
              /\ StatementAfter.executionType = st.executionType
              /\ StatementAfter.start = st.start
              /\ StatementAfter = WithEndFields(st, StatementAfter)
              /\ Len(body') = Len(body) =>
                    /\ statementParser'.currentStepIndex = statementParser.currentStepIndex
                    /\ StatementAfter.end = st.end]_vars

C17_Witness ==
    /\ isStrict
    /\ status = "running"
    /\ statementParser # NoParser
    /\ statementParser.statement.type = "CREATE_FUNCTION"
    /\ statementParser.currentStepIndex = 2
    /\ \/ statementParser.statement.openBlocks = Num(2)
       \/ statementParser.statement.definer = Num(0) /\ statementParser.statement.canEnd
    /\ Len(tokens) >= 9

-----------------------------------------------------------------------------
(* The replace specification: CREATE [OR] [REPLACE] FUNCTION f; and variants *)

ReplaceWords ==
    {Tok("keyword", "OR"), Tok("keyword", "or"), Tok("keyword", "REPLACE"),
     Tok("keyword", "replace"), Tok("keyword", "FUNCTION"), Tok("keyword", "TABLE")}

\* CREATE, then MaxClause + 1 words with whitespace before each, whitespace,
\* a name and a semicolon.
ReplaceSlot(i) ==
    IF i = 1 THEN {Tok("keyword", "CREATE")}
    ELSE IF i <= 3 + 2 * MaxClause
    THEN IF i % 2 = 0 THEN {Tok("whitespace", " ")} ELSE ReplaceWords
    ELSE IF i = 4 + 2 * MaxClause THEN {Tok("whitespace", " ")}
    ELSE IF i = 5 + 2 * MaxClause THEN {Tok("unknown", "f")}
    ELSE IF i = 6 + 2 * MaxClause THEN {Tok("semicolon", ";")}
    ELSE {}

NextReplace ==
    \/ ParseLoop(ReplaceSlot(Len(tokens) + 1))
    \/ ParseEnd

SpecReplace == Init /\ [][NextReplace]_vars

IsReplace(tk) == tk.type = "keyword" /\ toUpperCase(tk.value) \in {"OR", "REPLACE"}

\* CREATE followed by whitespace, OR and REPLACE tokens only.
ClausePrefix(s) ==
    /\ Len(s) >= 1
    /\ IsKeyword(s[1], "CREATE")
    /\ \A i \in 2..Len(s) : s[i].type = "whitespace" \/ IsReplace(s[i])

\* The offsets k of s at which FUNCTION follows CREATE, whitespace and
\* OR and REPLACE tokens, with whitespace right before it.
FunctionAfterClause(s) ==
    {k \in 3..Len(s) :
        /\ ClausePrefix(SubSeq(s, 1, k - 1))
        /\ s[k - 1].type = "whitespace"
        /\ IsKeyword(s[k], "FUNCTION")}

\* The first statement of the input, sealed or not.
FirstStatement == IF body # <<>> THEN body[1] ELSE statementParser.statement

\* C18: under psql, OR and REPLACE after CREATE leave the classifier at its
\* second step and the statement as CREATE left it; in strict mode FUNCTION
\* after them gives the statement type CREATE_FUNCTION as it does right after
\* CREATE, and parse does not raise. Under any other dialect in strict mode
\* parse raises on the first OR or REPLACE after CREATE, in addToken.
C18_OrReplaceSkipped ==
    /\ dialect = "psql" /\ ClausePrefix(Scanned) =>
          /\ status # "thrown"
          /\ status = "running" =>
                /\ statementParser.currentStepIndex = 1
                /\ statementParser.statement =
                      [NewStatement("psql") EXCEPT !.start = Scanned[1].start,
                                                   !.executionType = "UNKNOWN"]
    /\ dialect = "psql" /\ isStrict /\ FunctionAfterClause(Scanned) # {} =>
          /\ status # "thrown"
          /\ FirstStatement.type = "CREATE_FUNCTION"
          /\ FirstStatement.executionType = "MODIFICATION"
          /\ FirstStatement.start = Scanned[1].start
          /\ FirstStatement.openBlocks = Num(0)
    /\ dialect # "psql" /\ isStrict /\ Len(Scanned) >= 3 /\ ClausePrefix(Scanned) =>
          /\ status = "thrown"
          /\ Len(tokens) = 2
          /\ IsReplace(token)
          /\ statementParser # NoParser
          /\ statementParser.statement.type = undefined
          /\ body = <<>>

C18_Witness ==
    /\ dialect = "psql"
    /\ isStrict
    /\ status = "returned"
    /\ Len(tokens) >= 7
    /\ IsKeyword(tokens[3], "OR")
    /\ IsKeyword(tokens[5], "REPLACE")
    /\ IsKeyword(tokens[7], "FUNCTION")
    /\ Len(body) = 1
    /\ body[1].type = "CREATE_FUNCTION"

\* The keywords the second step of a classifier of this kind accepts.
AcceptedObjects(kind) ==
    IF kind = "CREATE" THEN {"TABLE", "DATABASE", "TRIGGER", "FUNCTION"}
    ELSE IF kind = "DROP" THEN {"TABLE", "DATABASE"}
    ELSE {}

\* C19: when a token matched against the second step of a CREATE or DROP
\* classifier is not one of the step's accepted keywords, strict mode throws:
\* parse stops on that token with nothing more pushed; non-strict mode
\* raises nothing on the same tokens: the token is accepted, sets the type,
\* and parse goes on.
C19_StrictRejectsNonStrictAccepts ==
    [][(/\ Iterates
        /\ statementParser # NoParser
        /\ statementParser.kind \in {"CREATE", "DROP"}
        /\ statementParser.currentStepIndex = 1
        /\ ReachesStep(statementParser, token')
        /\ ~(/\ token'.type = "keyword"
             /\ toUpperCase(token'.value) \in AcceptedObjects(statementParser.kind)))
       => IF isStrict
          THEN /\ status' = "thrown"
               /\ tokens' = tokens
               /\ body' = body
          ELSE /\ status' = "running"
               /\ tokens' = Append(tokens, token')
               /\ statementParser' # NoParser
               /\ statementParser'.statement.type # undefined
               /\ statementParser'.currentStepIndex = 2]_vars

C19_Witness ==
    /\ isStrict
    /\ status = "thrown"
    /\ statementParser.kind = "DROP"
    /\ statementParser.currentStepIndex = 1
    /\ IsKeyword(token, "TRIGGER")
    /\ Len(tokens) = 2
    /\ tokens[2].type = "whitespace"

\* C20: under psql the openBlocks of a statement, active or in body, is
\* never negative: the END tokens that took one off are never more than the
\* BEGIN, IF and LOOP tokens that added one.
C20_OpenBlocksNeverNegative ==
    dialect = "psql" =>
        /\ statementParser.statement.openBlocks.n >= 0
        /\ \A i \in 1..Len(body) : body[i].openBlocks.n >= 0
====
